---------------------------- MODULE Spec2Model ----------------------------
(***************************************************************************)
(* A model of inachus: the ABI method classifier and the composite         *)
(* argument parsers (src/src/abi.rs), the address validator                *)
(* (src/src/validation.rs) and the interactive workflow loop with its      *)
(* dispatcher execute_method (src/src/bin/inachus/main.rs).                *)
(*                                                                         *)
(* A text (Rust &str / String) is a sequence of one-character strings.     *)
(* Bytes is a sequence of integers 0..255.  A Result is a record whose     *)
(* field ok tells Ok(value) from Err(err); err is the Error variant name.  *)
(***************************************************************************)
EXTENDS Integers, Sequences, FiniteSets, TLC

VARIABLES
    pc,              \* main: "loop" | "exited" (returned Ok(())) | "failed" (returned Err)
    contract_infos,  \* main's in-memory Vec<ContractInfo>
    saved_infos,     \* contents of contracts.json as last written by save_all
    ctx,             \* the Context: contract_address and wallet
    last,            \* what the last loop iteration did (step, inputs, execute's outcome)
    call             \* one application of a pure function: its arguments and return value

vars == <<pc, contract_infos, saved_infos, ctx, last, call>>

\* Option<T>: None is the empty sequence, Some(x) the sequence of x alone
None == <<>>

Some(x) == <<x>>

\* Option::unwrap
Unwrap(o) == o[1]

(***************************************************************************)
(* Bounds of the model.                                                    *)
(***************************************************************************)
\* most comma-separated parts of a generated composite input text
MaxParts == 3
\* most element types of a generated tuple type list
MaxTypes == 3
\* most functions of a generated ABI handed to get_methods_by_type
MaxFunctions == 3
\* most records the contract registry grows to
MaxInfos == 2
\* most records of the registry file found at startup
MaxLoaded == 1
\* most characters of a generated integer text
MaxDigits == 3
\* most records of a generated list of chains
MaxChains == 3

\* a search that returns the last of the indices that satisfy the test
FirstIndex_Last(hits) == IF hits = {} THEN 0 ELSE CHOOSE i \in hits : \A j \in hits : i >= j

\* Iterator::find: the least of the indices that satisfy the test, 0 when none does
FirstIndex(hits) == IF hits = {} THEN 0 ELSE CHOOSE i \in hits : \A j \in hits : i <= j

(***************************************************************************)
(* Results.                                                                *)
(***************************************************************************)
Ok(v) == [ok |-> TRUE, value |-> v]

\* an error with its message: the text and the values formatted into it
ErrMsg(e, m) == [ok |-> FALSE, err |-> e, msg |-> m]

Err(e) == ErrMsg(e, <<>>)

(***************************************************************************)
(* str helpers of the Rust standard library, as the parsers use them.      *)
(***************************************************************************)
RECURSIVE TrimStartMatchesSet(_, _)
\* str::trim_start_matches with a predicate pattern: drop leading chars of cs
TrimStartMatchesSet(s, cs) ==
    IF s # <<>> /\ Head(s) \in cs THEN TrimStartMatchesSet(Tail(s), cs) ELSE s

RECURSIVE TrimEndMatchesSet(_, _)
\* str::trim_end_matches with a predicate pattern: drop trailing chars of cs
TrimEndMatchesSet(s, cs) ==
    IF s # <<>> /\ s[Len(s)] \in cs
    THEN TrimEndMatchesSet(SubSeq(s, 1, Len(s) - 1), cs)
    ELSE s

\* str::trim_matches(|c| c in cs): both ends
TrimMatches(s, cs) == TrimEndMatchesSet(TrimStartMatchesSet(s, cs), cs)

\* str::trim: whitespace off both ends
Trim(s) == TrimMatches(s, {" "})

\* str::starts_with(p)
StartsWith(s, p) == Len(s) >= Len(p) /\ SubSeq(s, 1, Len(p)) = p

\* str::ends_with(p)
EndsWith(s, p) == Len(s) >= Len(p) /\ SubSeq(s, Len(s) - Len(p) + 1, Len(s)) = p

RECURSIVE TrimStartMatchesStr(_, _)
\* str::trim_start_matches(p) with a non-empty string pattern: repeatedly
TrimStartMatchesStr(s, p) ==
    IF StartsWith(s, p)
    THEN TrimStartMatchesStr(SubSeq(s, Len(p) + 1, Len(s)), p)
    ELSE s

RECURSIVE TrimEndMatchesStr(_, _)
\* str::trim_end_matches(p) with a non-empty string pattern: repeatedly
TrimEndMatchesStr(s, p) ==
    IF EndsWith(s, p)
    THEN TrimEndMatchesStr(SubSeq(s, 1, Len(s) - Len(p)), p)
    ELSE s

\* str::split(sep): the texts between the separators, in order; always at
\* least one part, and "" splits into [""]
Split(s, sep) ==
    LET at == {i \in 1..Len(s) : s[i] = sep}
        n == Cardinality(at)
        \* the position of the k-th separator; 0 before the first, Len(s)+1 after the last
        pos(k) == IF k = 0 THEN 0
                  ELSE IF k = n + 1 THEN Len(s) + 1
                  ELSE CHOOSE i \in at : Cardinality({j \in at : j < i}) = k - 1
    IN [k \in 1..(n + 1) |-> SubSeq(s, pos(k - 1) + 1, pos(k) - 1)]

\* input.split(',').map(str::trim).collect()
SplitTrim(s) == LET parts == Split(s, ",") IN [i \in 1..Len(parts) |-> Trim(parts[i])]

(***************************************************************************)
(* Characters and bytes.                                                   *)
(***************************************************************************)
DecDigits == {"0", "1", "2", "3", "4", "5", "6", "7", "8", "9"}

LowerHex == {"a", "b", "c", "d", "e", "f"}

UpperHex == {"A", "B", "C", "D", "E", "F"}

\* char::is_ascii_hexdigit
IsAsciiHexdigit(c) == c \in DecDigits \cup LowerHex \cup UpperHex

\* the value of a digit character in a radix up to 36 ('a' and 'A' are 10)
DigitVal(c) ==
    CASE c = "0" -> 0 [] c = "1" -> 1 [] c = "2" -> 2 [] c = "3" -> 3 [] c = "4" -> 4
      [] c = "5" -> 5 [] c = "6" -> 6 [] c = "7" -> 7 [] c = "8" -> 8 [] c = "9" -> 9
      [] c \in {"a", "A"} -> 10 [] c \in {"b", "B"} -> 11 [] c \in {"c", "C"} -> 12
      [] c \in {"d", "D"} -> 13 [] c \in {"e", "E"} -> 14 [] c \in {"f", "F"} -> 15
      [] c = "l" -> 21 [] c = "r" -> 27 [] c = "s" -> 28 [] c = "t" -> 29
      [] c = "u" -> 30 [] c = "x" -> 33 [] c = "z" -> 35

\* char::to_ascii_lowercase on the hex digits
ToLower(c) ==
    CASE c = "A" -> "a" [] c = "B" -> "b" [] c = "C" -> "c" [] c = "D" -> "d"
      [] c = "E" -> "e" [] c = "F" -> "f" [] OTHER -> c

\* the UTF-8 byte of an ASCII character (str::as_bytes)
CharCode(c) ==
    CASE c \in DecDigits -> 48 + DigitVal(c)
      [] c \in LowerHex -> 87 + DigitVal(c)
      [] c \in UpperHex -> 55 + DigitVal(c)
      [] c = " " -> 32 [] c = "(" -> 40 [] c = ")" -> 41 [] c = "," -> 44
      [] c = "[" -> 91 [] c = "]" -> 93 [] c = "_" -> 95 [] c = "l" -> 108
      [] c = "r" -> 114 [] c = "s" -> 115 [] c = "t" -> 116 [] c = "u" -> 117
      [] c = "x" -> 120 [] c = "z" -> 122

\* str::as_bytes
AsBytes(s) == [i \in 1..Len(s) |-> CharCode(s[i])]

RECURSIVE HexPairs(_)
\* the bytes of an even-length text of hex digits
HexPairs(s) ==
    IF s = <<>> THEN <<>>
    ELSE <<16 * DigitVal(s[1]) + DigitVal(s[2])>> \o HexPairs(SubSeq(s, 3, Len(s)))

\* hex::decode: Err(FromHexError) on odd length or a non-hex character
HexDecode(s) ==
    IF Len(s) % 2 # 0 THEN Err("FromHexError")
    ELSE IF \E i \in 1..Len(s) : ~IsAsciiHexdigit(s[i]) THEN Err("FromHexError")
    ELSE Ok(HexPairs(s))

RECURSIVE FromDigits(_, _, _)
\* ruint from_base_be: fold the digits, Err on a digit >= base
FromDigits(s, radix, acc) ==
    IF s = <<>> THEN Ok(acc)
    ELSE IF s[1] = "_" THEN FromDigits(Tail(s), radix, acc)
    ELSE IF s[1] \notin DecDigits \cup LowerHex \cup UpperHex
                          \cup {"l", "r", "s", "t", "u", "x", "z"}
         THEN Err("ParseError")
    ELSE IF DigitVal(s[1]) >= radix THEN Err("ParseError")
    ELSE FromDigits(Tail(s), radix, acc * radix + DigitVal(s[1]))

\* U256::from_str_radix(s, radix): '_' is skipped, no sign, "" is zero.
\* The texts of the model stay far below 2^256, so Overflow is not reached.
FromStrRadix(s, radix) == FromDigits(s, radix, 0)

RECURSIVE BeBytes(_, _)
\* the k low-order bytes of n, most significant first
BeBytes(n, k) == IF k = 0 THEN <<>> ELSE Append(BeBytes(n \div 256, k - 1), n % 256)

\* U256::to_be_bytes::<32>
ToBeBytes32(n) == BeBytes(n, 32)

\* str::parse::<bool>: exactly "true" or "false"
ParseBool(s) ==
    IF s = <<"t", "r", "u", "e">> THEN Ok(TRUE)
    ELSE IF s = <<"f", "a", "l", "s", "e">> THEN Ok(FALSE)
    ELSE Err("ParseBoolError")

(***************************************************************************)
(* Addresses.  The EIP-55 checksum is a keccak256 of the lower-case hex;   *)
(* it is tabulated for the addresses the model uses.                       *)
(***************************************************************************)
\* a checksummed address (EIP-55 test vector)
Addr1 ==
    <<"0", "x", "5", "a", "A", "e", "b", "6", "0", "5", "3", "F", "3", "E",
       "9", "4", "C", "9", "b", "9", "A", "0", "9", "f", "3", "3", "6", "6",
       "9", "4", "3", "5", "E", "7", "E", "f", "1", "B", "e", "A", "e", "d">>

\* a second checksummed address (EIP-55 test vector)
Addr2 ==
    <<"0", "x", "f", "B", "6", "9", "1", "6", "0", "9", "5", "c", "a", "1",
       "d", "f", "6", "0", "b", "B", "7", "9", "C", "e", "9", "2", "c", "E",
       "3", "E", "a", "7", "4", "c", "3", "7", "c", "5", "d", "3", "5", "9">>

\* Addr1 in lower case: 42 characters of hex after 0x, but not checksummed
Addr1Lower == [i \in 1..Len(Addr1) |-> ToLower(Addr1[i])]

\* Address::to_checksum of the 20 bytes whose lower-case hex text is h
ToChecksum(h) ==
    CASE h = [i \in 1..Len(Addr1) |-> ToLower(Addr1[i])] -> Addr1
      [] h = [i \in 1..Len(Addr2) |-> ToLower(Addr2[i])] -> Addr2

\* Address::parse_checksummed(s, None): the 20 bytes, or Err(AddressError)
ParseChecksummed(s) ==
    IF ~StartsWith(s, <<"0", "x">>) THEN Err("AddressError")
    ELSE IF Len(s) # 42 THEN Err("AddressError")
    ELSE IF \E i \in 3..42 : ~IsAsciiHexdigit(s[i]) THEN Err("AddressError")
    ELSE IF s # ToChecksum([i \in 1..42 |-> ToLower(s[i])]) THEN Err("AddressError")
    ELSE Ok(HexPairs(SubSeq(s, 3, 42)))

\* validation::validate_address: 0x prefix, 42 characters, hex digits
validate_address(address) ==
    IF ~StartsWith(address, <<"0", "x">>) THEN Err("InvalidAddress")
    ELSE IF Len(address) # 42 THEN Err("InvalidAddress")
    ELSE IF \E i \in 3..Len(address) : ~IsAsciiHexdigit(address[i]) THEN Err("InvalidAddress")
    ELSE Ok(<<>>)

\* validation::validate_contract_address: the same check, the error renamed
validate_contract_address(address) ==
    IF validate_address(address).ok THEN Ok(<<>>) ELSE Err("InvalidContract")

(***************************************************************************)
(* src/src/abi.rs: the composite parsers.  A type string is a sequence of  *)
(* lexemes: a base name ("uint256"), "[", "]", "(", ")", "," or a size.    *)
(***************************************************************************)
\* the body of parse_array_or_slice_input's loop for one part
ArrayElement(part, param_type) ==
    CASE param_type = <<"address">> ->
           LET addr == ParseChecksummed(part)
           IN IF addr.ok THEN Ok(addr.value)
              ELSE ErrMsg("InvalidAddress", <<"Invalid address", part>>)
      [] param_type \in {<<"uint256">>, <<"int256">>} ->
           LET num == FromStrRadix(part, 10)
           IN IF num.ok THEN Ok(ToBeBytes32(num.value))
              ELSE ErrMsg("InvalidArguments", <<"Invalid number", part>>)
      [] param_type = <<"bool">> ->
           LET b == ParseBool(part)
           IN IF b.ok THEN Ok(IF b.value THEN <<1>> ELSE <<0>>)
              ELSE ErrMsg("InvalidArguments", <<"Invalid boolean", part>>)
      [] param_type = <<"string">> -> Ok(AsBytes(part))
      [] param_type = <<"bytes">> ->
           LET bytes == HexDecode(TrimStartMatchesStr(part, <<"0", "x">>))
           IN IF bytes.ok THEN Ok(bytes.value)
              ELSE ErrMsg("InvalidArguments", <<"Invalid hex", part>>)
      [] OTHER -> ErrMsg("InvalidArguments", <<"Unsupported array type", param_type>>)

RECURSIVE ArrayLoop_SkipFailed(_, _, _)
\* a loop that drops an element that does not parse and goes on with the rest
ArrayLoop_SkipFailed(parts, param_type, result) ==
    IF parts = <<>> THEN Ok(result)
    ELSE LET e == ArrayElement(Head(parts), param_type)
         IN ArrayLoop_SkipFailed(Tail(parts), param_type,
                                 IF e.ok THEN Append(result, e.value) ELSE result)

RECURSIVE ArrayLoop(_, _, _)
\* for part in parts { ...?; result.push(..) }: the first Err returns
ArrayLoop(parts, param_type, result) ==
    IF parts = <<>> THEN Ok(result)
    ELSE LET e == ArrayElement(Head(parts), param_type)
         IN IF e.ok THEN ArrayLoop(Tail(parts), param_type, Append(result, e.value))
            ELSE e

\* abi::parse_array_or_slice_input
parse_array_or_slice_input(input, param_type) ==
    LET inner == TrimMatches(Trim(input), {"[", "]"})
        parts == SplitTrim(inner)
    IN ArrayLoop(parts, param_type, <<>>)

\* the body of parse_tuple_input's loop for one (part, param_type) pair
TupleElement(part, param_type) ==
    CASE param_type = <<"address">> ->
           LET addr == ParseChecksummed(part)
           IN IF addr.ok THEN Ok(addr.value)
              ELSE ErrMsg("InvalidAddress", <<"Invalid address", part>>)
      [] param_type \in {<<"uint256">>, <<"int256">>} ->
           LET num == FromStrRadix(part, 10)
           IN IF num.ok THEN Ok(ToBeBytes32(num.value))
              ELSE ErrMsg("InvalidArguments", <<"Invalid number", part>>)
      [] param_type = <<"bool">> ->
           LET b == ParseBool(part)
           IN IF b.ok THEN Ok(IF b.value THEN <<1>> ELSE <<0>>)
              ELSE ErrMsg("InvalidArguments", <<"Invalid boolean", part>>)
      [] param_type = <<"string">> -> Ok(AsBytes(part))
      [] param_type = <<"bytes">> ->
           LET bytes == HexDecode(TrimStartMatchesStr(part, <<"0", "x">>))
           IN IF bytes.ok THEN Ok(bytes.value)
              ELSE ErrMsg("InvalidArguments", <<"Invalid hex", part>>)
      [] OTHER -> ErrMsg("InvalidArguments", <<"Unsupported tuple type", param_type>>)

RECURSIVE TupleLoop(_, _, _)
\* for (part, param_type) in parts.iter().zip(param_types): the first Err returns
TupleLoop(parts, param_types, result) ==
    IF parts = <<>> \/ param_types = <<>> THEN Ok(result)
    ELSE LET e == TupleElement(Head(parts), Head(param_types))
         IN IF e.ok
            THEN TupleLoop(Tail(parts), Tail(param_types), Append(result, e.value))
            ELSE e

\* an arity test that only catches too few parts: zip then drops the surplus
TupleLengthMismatch_TooFewOnly(parts, param_types) == Len(parts) < Len(param_types)

\* the arity test of parse_tuple_input: parts.len() != param_types.len()
TupleLengthMismatch(parts, param_types) == Len(parts) # Len(param_types)

\* abi::parse_tuple_input
parse_tuple_input(input, param_types) ==
    LET inner == TrimMatches(Trim(input), {"(", ")"})
        parts == SplitTrim(inner)
    IN IF TupleLengthMismatch(parts, param_types)
       THEN ErrMsg("InvalidArguments",
                   <<"Tuple input length mismatch", Len(param_types), Len(parts)>>)
       ELSE TupleLoop(parts, param_types, <<>>)

(***************************************************************************)
(* src/src/abi.rs: the method classifier.  A Function is a record of its   *)
(* name, state_mutability and inputs; a JsonAbi is the sequence of its     *)
(* functions in the order abi.functions() yields them; a HashMap is a      *)
(* TLA+ function on the set of its keys.                                   *)
(***************************************************************************)
MethodTypes == {"Read", "Write", "All"}

StateMutabilities == {"pure", "view", "nonpayable", "payable"}

EmptyMap == <<>>

\* HashMap::insert: a later insert under the same key replaces the value
Insert(m, k, v) == [x \in (DOMAIN m) \cup {k} |-> IF x = k THEN v ELSE m[x]]

\* a classifier that takes only view for read-only, and files pure under Write
IsViewOrPure_ViewOnly(state_mutability) == state_mutability = "view"

\* the test of get_methods_by_type: View | Pure
IsViewOrPure(state_mutability) == state_mutability \in {"view", "pure"}

RECURSIVE ClassifyLoop(_, _, _, _)
\* for function in abi.functions(): fill the three maps
ClassifyLoop(functions, read_methods, write_methods, all_methods) ==
    IF functions = <<>>
    THEN [Read |-> read_methods, Write |-> write_methods, All |-> all_methods]
    ELSE LET function == Head(functions)
             name == function.name
         IN IF IsViewOrPure(function.state_mutability)
            THEN ClassifyLoop(Tail(functions), Insert(read_methods, name, function),
                              write_methods, Insert(all_methods, name, function))
            ELSE ClassifyLoop(Tail(functions), read_methods,
                              Insert(write_methods, name, function),
                              Insert(all_methods, name, function))

\* abi::get_methods_by_type
get_methods_by_type(abi, method_type) ==
    LET maps == ClassifyLoop(abi, EmptyMap, EmptyMap, EmptyMap)
    IN CASE method_type = "Read" -> maps.Read
         [] method_type = "Write" -> maps.Write
         [] method_type = "All" -> maps.All

(***************************************************************************)
(* The Context main.rs uses (inachus::context::Context) and the Error      *)
(* conversions its `?` needs are not among the repository's files; they    *)
(* are modelled from the specification's Session Context and taxonomy.     *)
(***************************************************************************)
\* Context::new: no contract address yet, the wallet when a key is configured
ContextNew(private_key) == [contract_address |-> None, wallet |-> private_key]

\* Context::set_contract_address
set_contract_address(c, address) == [c EXCEPT !.contract_address = Some(address)]

\* Context::contract_address
contract_address(c) == c.contract_address

\* Context::wallet
wallet(c) == c.wallet

\* Error::from for the library errors that main.rs raises with `?`
ErrorFrom(e) ==
    CASE e = "AddressError" -> "InvalidAddress"
      [] e = "ParseError" -> "InvalidArguments"
      [] e = "ParseBoolError" -> "InvalidArguments"

\* Error::Hex(#[from] hex::FromHexError)
ErrorFromHex(e) == "Hex"

(***************************************************************************)
(* src/src/bin/inachus/main.rs: execute_method.                            *)
(***************************************************************************)
\* param.ty.tuple_elements(): the element types of "(t1,t2,..)"
TupleElements(ty) == Split(TrimMatches(ty, {"(", ")"}), ",")

\* the scalar arm of execute_method's loop: Ok(the Bytes pushed) or Err
ScalarArm(param_type, value) ==
    CASE param_type = <<"address">> ->
           LET addr == ParseChecksummed(value)
           IN IF addr.ok THEN Ok(<<addr.value>>) ELSE Err(ErrorFrom(addr.err))
      [] param_type \in {<<"uint256">>, <<"int256">>} ->
           LET num == FromStrRadix(value, 10)
           IN IF num.ok THEN Ok(<<ToBeBytes32(num.value)>>) ELSE Err(ErrorFrom(num.err))
      [] param_type = <<"bool">> ->
           LET b == ParseBool(value)
           IN IF b.ok THEN Ok(<<IF b.value THEN <<1>> ELSE <<0>>>>)
              ELSE Err(ErrorFrom(b.err))
      [] param_type = <<"string">> -> Ok(<<AsBytes(value)>>)
      [] param_type = <<"bytes">> ->
           LET b == HexDecode(TrimStartMatchesStr(value, <<"0", "x">>))
           IN IF b.ok THEN Ok(<<b.value>>) ELSE Err(ErrorFromHex(b.err))
      [] OTHER -> ErrMsg("UnsupportedType", param_type)

\* the routing test of execute_method's loop: a composite parser, or the scalar arm
IsCompositeType(param_type) ==
    EndsWith(param_type, <<"[", "]">>) \/ StartsWith(param_type, <<"(">>)

\* one iteration of execute_method's loop: the Vec<Bytes> of one parameter
EncodeParam(param, value) ==
    LET param_type == param.ty
    IN IF IsCompositeType(param_type)
       THEN IF EndsWith(param_type, <<"[", "]">>)
            THEN parse_array_or_slice_input(
                     value, TrimEndMatchesStr(param_type, <<"[", "]">>))
            ELSE parse_tuple_input(value, TupleElements(param_type))
       ELSE ScalarArm(param_type, value)

\* encoded_params.extend(bytes)
Extend(encoded_params, bytes) == encoded_params \o bytes

RECURSIVE EncodeLoop(_, _, _)
\* for (param, value) in function.inputs.iter().zip(params): the first Err returns
EncodeLoop(inputs, params, encoded_params) ==
    IF inputs = <<>> \/ params = <<>> THEN Ok(encoded_params)
    ELSE LET bytes == EncodeParam(Head(inputs), Head(params))
         IN IF bytes.ok
            THEN EncodeLoop(Tail(inputs), Tail(params), Extend(encoded_params, bytes.value))
            ELSE bytes

\* one call of a collaborator, as execute_method's trace records it
Event(op, arg) == [op |-> op, arg |-> arg]

\* a read branch that calls the provider a second time when the first call fails
ReadBranch_Retry(address, env) ==
    IF ~env.encode_input THEN [result |-> Err("Abi"), events |-> <<>>]
    ELSE IF ~env.transport
         THEN [result |-> Err("Provider"),
               events |-> <<Event("call", address), Event("call", address)>>]
    ELSE IF ~env.decode_output
         THEN [result |-> Err("Abi"), events |-> <<Event("call", address)>>]
    ELSE [result |-> Ok("decoded"), events |-> <<Event("call", address)>>]

\* the read branch: encode_input, provider.call, decode_output
ReadBranch(address, env) ==
    IF ~env.encode_input THEN [result |-> Err("Abi"), events |-> <<>>]
    ELSE IF ~env.transport
         THEN [result |-> Err("Provider"), events |-> <<Event("call", address)>>]
    ELSE IF ~env.decode_output
         THEN [result |-> Err("Abi"), events |-> <<Event("call", address)>>]
    ELSE [result |-> Ok("decoded"), events |-> <<Event("call", address)>>]

\* a dispatcher that takes any answer of the prompt for a confirmation
Confirmed_Ignored(confirm) == TRUE

\* the test on the answer of prompt::confirm_transaction: Ok(true) goes on
Confirmed(confirm) == confirm.value

\* a write branch that never looks for the wallet
WriteBranch_WalletUnchecked(c, address, env) ==
    LET asked == <<Event("confirm_transaction", env.confirm)>>
    IN IF ~env.confirm.ok THEN [result |-> env.confirm, events |-> asked]
       ELSE IF ~Confirmed(env.confirm)
            THEN [result |-> Ok("Transaction cancelled"), events |-> asked]
       ELSE IF ~env.encode_input THEN [result |-> Err("Abi"), events |-> asked]
       ELSE IF ~env.transport
            THEN [result |-> Err("Provider"),
                  events |-> Append(asked, Event("sign_and_send", address))]
       ELSE [result |-> Ok("Transaction sent"),
             events |-> Append(asked, Event("sign_and_send", address))]

\* the write branch: confirm_transaction, wallet, encode_input, sign_and_send
WriteBranch(c, address, env) ==
    LET asked == <<Event("confirm_transaction", env.confirm)>>
    IN IF ~env.confirm.ok THEN [result |-> env.confirm, events |-> asked]
       ELSE IF ~Confirmed(env.confirm)
            THEN [result |-> Ok("Transaction cancelled"), events |-> asked]
       ELSE IF wallet(c) = None
            THEN [result |-> Err("NoWalletConfigured"), events |-> asked]
       ELSE IF ~env.encode_input THEN [result |-> Err("Abi"), events |-> asked]
       ELSE IF ~env.transport
            THEN [result |-> Err("Provider"),
                  events |-> Append(asked, Event("sign_and_send", address))]
       ELSE [result |-> Ok("Transaction sent"),
             events |-> Append(asked, Event("sign_and_send", address))]

\* function.state_mutability.is_view() || function.state_mutability.is_pure()
IsReadOnly(function) == function.state_mutability \in {"view", "pure"}

\* a dispatcher that asks for the confirmation of a write before it looks
\* for the contract address
Dispatch_ConfirmFirst(c, function, env) ==
    IF IsReadOnly(function)
    THEN IF contract_address(c) = None
         THEN [result |-> Err("NoContractSelected"), events |-> <<>>]
         ELSE ReadBranch(Unwrap(contract_address(c)), env)
    ELSE LET asked == <<Event("confirm_transaction", env.confirm)>>
         IN IF ~env.confirm.ok THEN [result |-> env.confirm, events |-> asked]
            ELSE IF ~Confirmed(env.confirm)
                 THEN [result |-> Ok("Transaction cancelled"), events |-> asked]
            ELSE IF contract_address(c) = None
                 THEN [result |-> Err("NoContractSelected"), events |-> asked]
            ELSE WriteBranch(c, Unwrap(contract_address(c)), env)

\* execute_method after its encoding loop: the contract address, then the
\* read or the write branch
Dispatch(c, function, env) ==
    IF contract_address(c) = None
    THEN [result |-> Err("NoContractSelected"), events |-> <<>>]
    ELSE IF IsReadOnly(function)
         THEN ReadBranch(Unwrap(contract_address(c)), env)
         ELSE WriteBranch(c, Unwrap(contract_address(c)), env)

\* an execute_method that dispatches before it looks at the outcome of the
\* encoding loop
execute_method_DispatchFirst(c, function, params, env) ==
    LET encoded == EncodeLoop(function.inputs, params, <<>>)
        d == Dispatch(c, function, env)
    IN IF ~encoded.ok
       THEN [result |-> encoded, events |-> d.events, encoded_params |-> None]
       ELSE [result |-> d.result, events |-> d.events,
             encoded_params |-> Some(encoded.value)]

\* execute_method: its result, the collaborator calls it made in order, and
\* the encoded_params it built (None when the encoding loop returned an Err)
execute_method(c, function, params, env) ==
    LET encoded == EncodeLoop(function.inputs, params, <<>>)
    IN IF ~encoded.ok
       THEN [result |-> encoded, events |-> <<>>, encoded_params |-> None]
       ELSE LET d == Dispatch(c, function, env)
            IN [result |-> d.result, events |-> d.events,
                encoded_params |-> Some(encoded.value)]

(***************************************************************************)
(* Texts the model feeds the parsers: parts joined with commas, wrapped.   *)
(***************************************************************************)
RECURSIVE Join(_)
\* the parts with a comma between them
Join(parts) ==
    IF Len(parts) = 0 THEN <<>>
    ELSE IF Len(parts) = 1 THEN parts[1]
    ELSE parts[1] \o <<",">> \o Join(Tail(parts))

\* the sequences over S of 1..n elements
SeqUpTo(S, n) == UNION {[1..k -> S] : k \in 1..n}

Wraps == {"bare", "brackets", "parens", "spaced brackets", "spaced parens", "open bracket"}

\* the text t in the wrapping w
Wrap(w, t) ==
    CASE w = "bare" -> t
      [] w = "brackets" -> <<"[">> \o t \o <<"]">>
      [] w = "parens" -> <<"(">> \o t \o <<")">>
      [] w = "spaced brackets" -> <<" ", "[">> \o t \o <<"]", " ">>
      [] w = "spaced parens" -> <<" ", "(">> \o t \o <<")", " ">>
      [] w = "open bracket" -> <<"[">> \o t

\* where the workflow variables rest while a pure function is applied
Idle ==
    /\ pc = "idle"
    /\ contract_infos = <<>>
    /\ saved_infos = <<>>
    /\ ctx = ContextNew(None)
    /\ last = None

\* a pure function about to be applied to args
Pending(op, args) == [op |-> op, args |-> args, ret |-> None]

\* the call was made and has returned
Returned(op) == call.op = op /\ call.ret # None

(***************************************************************************)
(* SpecArray: parse_array_or_slice_input applied to every generated text.  *)
(***************************************************************************)
ArrayParts ==
    { <<>>, <<"1">>, <<" ", "2">>, <<"1", "2", " ">>, <<"t", "r", "u", "e">>,
      <<"0", "x", "a", "b">>, <<"z">>, Addr1 }

ArrayWraps == {"bare", "brackets", "spaced brackets", "open bracket"}

ElementTypes ==
    { <<"address">>, <<"uint256">>, <<"int256">>, <<"bool">>, <<"string">>,
      <<"bytes">>, <<"uint8">> }

SupportedElementTypes == ElementTypes \ {<<"uint8">>}

InitArray ==
    /\ Idle
    /\ \E parts \in SeqUpTo(ArrayParts, MaxParts), w \in ArrayWraps, ty \in ElementTypes :
          call = Pending("parse_array_or_slice_input",
                         [input |-> Wrap(w, Join(parts)), param_type |-> ty,
                          parts |-> parts, wrap |-> w])

ApplyArray ==
    /\ call.op = "parse_array_or_slice_input"
    /\ call.ret = None
    /\ call' = [call EXCEPT !.ret =
                   Some(parse_array_or_slice_input(call.args.input, call.args.param_type))]
    /\ UNCHANGED <<pc, contract_infos, saved_infos, ctx, last>>

SpecArray == InitArray /\ [][ApplyArray]_vars

(***************************************************************************)
(* SpecTuple: parse_tuple_input applied to every generated text and list   *)
(* of element types.                                                       *)
(***************************************************************************)
TupleParts == { <<>>, <<"1">>, <<" ", "t", "r", "u", "e">>, <<"z">> }

TupleWraps == {"bare", "parens", "spaced parens"}

TupleTypes == { <<"uint256">>, <<"bool">>, <<"string">>, <<"uint8">> }

InitTuple ==
    /\ Idle
    /\ \E parts \in SeqUpTo(TupleParts, MaxParts), w \in TupleWraps,
          tys \in {<<>>} \cup SeqUpTo(TupleTypes, MaxTypes) :
          call = Pending("parse_tuple_input",
                         [input |-> Wrap(w, Join(parts)), param_types |-> tys,
                          parts |-> parts])

ApplyTuple ==
    /\ call.op = "parse_tuple_input"
    /\ call.ret = None
    /\ call' = [call EXCEPT !.ret =
                   Some(parse_tuple_input(call.args.input, call.args.param_types))]
    /\ UNCHANGED <<pc, contract_infos, saved_infos, ctx, last>>

SpecTuple == InitTuple /\ [][ApplyTuple]_vars

(***************************************************************************)
(* SpecComposite: both composite parsers, each applied to its inputs.      *)
(***************************************************************************)
InitComposite == InitArray \/ InitTuple

NextComposite == ApplyArray \/ ApplyTuple

SpecComposite == InitComposite /\ [][NextComposite]_vars

(***************************************************************************)
(* SpecClassify: get_methods_by_type applied to every generated ABI.       *)
(***************************************************************************)
FunctionNames == {"f", "g"}

\* the order of the names in JsonAbi's BTreeMap, which functions() follows
NameRank(name) == IF name = "f" THEN 1 ELSE 2

ClassifiedFunctions ==
    [name : FunctionNames, state_mutability : StateMutabilities, inputs : {<<>>}]

\* the function lists abi.functions() can yield: grouped by name, in key order
Abis ==
    {<<>>} \cup
    { abi \in SeqUpTo(ClassifiedFunctions, MaxFunctions) :
        \A i \in 1..(Len(abi) - 1) : NameRank(abi[i].name) <= NameRank(abi[i + 1].name) }

InitClassify ==
    /\ Idle
    /\ \E abi \in Abis, method_type \in MethodTypes :
          call = Pending("get_methods_by_type", [abi |-> abi, method_type |-> method_type])

ApplyClassify ==
    /\ call.op = "get_methods_by_type"
    /\ call.ret = None
    /\ call' = [call EXCEPT !.ret =
                   Some(get_methods_by_type(call.args.abi, call.args.method_type))]
    /\ UNCHANGED <<pc, contract_infos, saved_infos, ctx, last>>

SpecClassify == InitClassify /\ [][ApplyClassify]_vars

(***************************************************************************)
(* SpecInteger: the encoding of one uint256 or int256 text, as an element  *)
(* of an array (abi.rs) and as a scalar argument (main.rs).                *)
(***************************************************************************)
IntegerChars == {"0", "1", "9", "-", "_", "z"}

\* the texts of up to MaxDigits characters, the empty text included
IntegerTexts == {<<>>} \cup SeqUpTo(IntegerChars, MaxDigits)

IntegerTypes == { <<"uint256">>, <<"int256">> }

InitInteger ==
    /\ Idle
    /\ \E ty \in IntegerTypes, value \in IntegerTexts :
          call = Pending("encode_integer", [param_type |-> ty, value |-> value])

ApplyInteger ==
    /\ call.op = "encode_integer"
    /\ call.ret = None
    /\ call' = [call EXCEPT !.ret =
                   Some([element |-> ArrayElement(call.args.value, call.args.param_type),
                         scalar |-> ScalarArm(call.args.param_type, call.args.value)])]
    /\ UNCHANGED <<pc, contract_infos, saved_infos, ctx, last>>

SpecInteger == InitInteger /\ [][ApplyInteger]_vars

(***************************************************************************)
(* SpecChain: ChainInfo::get_by_id (src/crates/chain_info) applied to      *)
(* every generated list of chain records and chain id.  A ChainInfo is a   *)
(* record of its name, chain_id and network_id.                            *)
(***************************************************************************)
\* a test that compares the network id of the record
ChainIdMatches_NetworkId(info, chain_id) == info.network_id = chain_id

\* the closure of get_by_id: |info| info.chain_id == chain_id
ChainIdMatches(info, chain_id) == info.chain_id = chain_id

\* ChainInfo::get_by_id: iter().find(..).ok_or(ChainNotFound(chain_id))
get_by_id(chain_infos, chain_id) ==
    LET i == FirstIndex({k \in 1..Len(chain_infos) : ChainIdMatches(chain_infos[k], chain_id)})
    IN IF i = 0 THEN ErrMsg("ChainNotFound", chain_id) ELSE Ok(chain_infos[i])

ChainIds == {1, 2, 999}

ChainInfos == [name : {"Test Chain 1", "Test Chain 2"}, chain_id : {1, 2}, network_id : {1, 2}]

InitChain ==
    /\ Idle
    /\ \E chain_infos \in {<<>>} \cup SeqUpTo(ChainInfos, MaxChains), chain_id \in ChainIds :
          call = Pending("get_by_id", [chain_infos |-> chain_infos, chain_id |-> chain_id])

ApplyChain ==
    /\ call.op = "get_by_id"
    /\ call.ret = None
    /\ call' = [call EXCEPT !.ret =
                   Some(get_by_id(call.args.chain_infos, call.args.chain_id))]
    /\ UNCHANGED <<pc, contract_infos, saved_infos, ctx, last>>

SpecChain == InitChain /\ [][ApplyChain]_vars

(***************************************************************************)
(* SpecExecute: execute_method applied to every generated method, list of  *)
(* argument texts, Context and behaviour of the collaborators.             *)
(***************************************************************************)
\* the type strings of the generated parameters
TUint == <<"uint256">>

TUintArray == <<"uint256", "[", "]">>

TUintArray2 == <<"uint256", "[", "2", "]">>

TUintBoolTuple == <<"(", "uint256", ",", "bool", ")">>

ExecSignatures ==
    { <<>>, <<TUint>>, << <<"address">> >>, << <<"bool">> >>, << <<"bytes">> >>,
      << <<"uint8">> >>, <<TUintArray>>, <<TUintArray2>>, <<TUintBoolTuple>>,
      <<TUint, <<"bool">> >>, <<TUintArray, TUint>> }

\* the Function of a name, a mutability and the types of its inputs
Fn(name, state_mutability, tys) ==
    [name |-> name, state_mutability |-> state_mutability,
     inputs |-> [i \in 1..Len(tys) |-> [ty |-> tys[i]]]]

ExecFunctions ==
    {Fn("f", sm, tys) : sm \in StateMutabilities, tys \in ExecSignatures}

ExecTexts ==
    { <<"1">>, <<"t", "r", "u", "e">>, <<"z", "z">>, <<"[", "1", ",", " ", "2", "]">>,
      <<"(", "1", ",", "t", "r", "u", "e", ")">>, <<"0", "x", "a", "b">>, Addr1 }

\* what the collaborators answer in one dispatch: the confirmation prompt,
\* function.encode_input, the provider's transport, function.decode_output
Envs ==
    { env \in [confirm : {Ok(TRUE), Ok(FALSE), Err("Other")},
               encode_input : BOOLEAN, transport : BOOLEAN, decode_output : BOOLEAN] :
        Cardinality({f \in {"encode_input", "transport", "decode_output"} : ~env[f]}) <= 1 }

PrivateKeys == {None, Some("key")}

\* the Contexts a dispatch can find: any address selected or none, a wallet or none
Contexts ==
    {ContextNew(None), ContextNew(Some("key"))}
    \cup {set_contract_address(ContextNew(k), ParseChecksummed(Addr1).value) : k \in PrivateKeys}

InitExecute ==
    /\ Idle
    /\ \E function \in ExecFunctions, c \in Contexts, env \in Envs :
          \E params \in [1..Len(function.inputs) -> ExecTexts] :
             call = Pending("execute_method",
                            [ctx |-> c, function |-> function, params |-> params, env |-> env])

ApplyExecute ==
    /\ call.op = "execute_method"
    /\ call.ret = None
    /\ call' = [call EXCEPT !.ret =
                   Some(execute_method(call.args.ctx, call.args.function,
                                       call.args.params, call.args.env))]
    /\ UNCHANGED <<pc, contract_infos, saved_infos, ctx, last>>

SpecExecute == InitExecute /\ [][ApplyExecute]_vars

(***************************************************************************)
(* Spec: main.  The ABIs are loaded once; the loop asks for a step and     *)
(* runs it; every `?` of the loop returns the Err from main.  The file     *)
(* system is taken to work: save_all succeeds.                             *)
(***************************************************************************)
\* abi::load_abis: file name -> the functions of the ABI in functions() order
abis ==
    [n \in {"A.abi", "B.abi"} |->
        IF n = "A.abi"
        THEN <<Fn("get", "view", <<>>), Fn("set", "nonpayable", <<TUint>>)>>
        ELSE <<Fn("mark", "nonpayable", << <<"address">>, <<"bool">> >>),
               Fn("old", "view", << <<"uint8">> >>),
               Fn("pay", "payable", <<TUintBoolTuple>>),
               Fn("put", "payable", << <<"bytes">> >>),
               Fn("total", "pure", <<TUintArray>>)>>]

\* the records contracts.json can hold at startup
LoadedInfos == [name : {"A.abi", "C.abi"}, address : {None, Some(Addr1)}]

\* the texts a user may type at the address prompt
AddressTexts ==
    { Addr1, Addr2, Addr1Lower, <<"0", "x", "1", "2">>, SubSeq(Addr1, 3, 42),
      [Addr1 EXCEPT ![5] = "z"] }

\* the texts a user may type at a parameter prompt
WorkflowTexts == { <<"1">>, <<"z">>, <<"(", "1", ",", "t", "r", "u", "e", ")">>,
                   <<"t", "r", "u", "e">>, Addr1 }

\* an inquire prompt ends in Err(Other) when the user interrupts it or when it
\* has no option to offer
PromptErr == Err("Other")

\* Step::all
StepAll == <<"ChangeContract", "ChangeContractAddress", "SelectMethod", "Exit">>

\* prompt::select_step: one of the steps of Step::all, or the prompt fails
select_step == {PromptErr} \cup {Ok(StepAll[i]) : i \in DOMAIN StepAll}

\* main is at the head of its loop and select_step returns step
Chosen(step) == pc = "loop" /\ Ok(step) \in select_step

\* prompt::select_contract_name
select_contract_name(contract_names) == {PromptErr} \cup {Ok(n) : n \in contract_names}

\* the validator of prompt::input_contract_address: the prompt returns only a
\* text that validate_contract_address accepts
AddressAccepted(text) == validate_contract_address(text).ok

\* prompt::input_contract_address
input_contract_address ==
    {PromptErr} \cup {Ok(t) : t \in {x \in AddressTexts : AddressAccepted(x)}}

\* prompt::select_method_type
select_method_type == {PromptErr} \cup {Ok(t) : t \in MethodTypes}

\* prompt::select_method
select_method(methods) == {PromptErr} \cup {Ok(n) : n \in DOMAIN methods}

\* prompt::input_method_params: one text per input
input_method_params(function) ==
    {PromptErr} \cup {Ok(p) : p \in [1..Len(function.inputs) -> WorkflowTexts]}

\* what one iteration of the loop did
Iteration(step, prompts, name, address, function, params, exec) ==
    [step |-> step, prompts |-> prompts, name |-> name, address |-> address, function |-> function,
     params |-> params, result |-> exec.result, events |-> exec.events,
     encoded_params |-> exec.encoded_params]

\* an iteration that made no dispatch
Plain(result) == [result |-> result, events |-> <<>>, encoded_params |-> None]

\* the loop goes on after Ok, main returns after Err
After(result) == IF result.ok THEN "loop" ELSE "failed"

Init ==
    /\ pc = "loop"
    /\ contract_infos \in {<<>>} \cup SeqUpTo(LoadedInfos, MaxLoaded)
    /\ saved_infos = contract_infos
    /\ ctx \in {ContextNew(k) : k \in PrivateKeys}
    /\ last = Iteration("Start", <<>>, None, None, None, None, Plain(Ok("started")))
    /\ call = Pending("main", <<>>)

\* prompt::select_step fails: the `?` returns the Err from main
SelectStepFailed ==
    /\ pc = "loop"
    /\ PromptErr \in select_step
    /\ pc' = "failed"
    /\ last' = Iteration("SelectStep", <<"select_step">>, None, None, None, None, Plain(PromptErr))
    /\ UNCHANGED <<contract_infos, saved_infos, ctx, call>>

\* a step that puts the new record in the place of the registry
Push_Replace(infos, info) == <<info>>

\* contract_infos.push(contract_info)
Push(infos, info) == Append(infos, info)

\* Step::ChangeContract
ChangeContract ==
    /\ Chosen("ChangeContract")
    /\ \E contract_name \in select_contract_name(DOMAIN abis) :
          IF ~contract_name.ok
          THEN /\ pc' = "failed"
               /\ last' = Iteration("ChangeContract",
                                    <<"select_step", "select_contract_name">>,
                                    None, None, None, None, Plain(contract_name))
               /\ UNCHANGED <<contract_infos, saved_infos>>
          ELSE /\ Len(contract_infos) < MaxInfos
               /\ contract_infos' = Push(contract_infos,
                                         [name |-> contract_name.value, address |-> None])
               /\ saved_infos' = contract_infos'
               /\ pc' = "loop"
               /\ last' = Iteration("ChangeContract",
                                    <<"select_step", "select_contract_name">>,
                                    Some(contract_name.value), None, None, None,
                                    Plain(Ok("unit")))
    /\ UNCHANGED <<ctx, call>>

\* a selection that takes the 20 bytes of any accepted text, checksummed or not
SelectContract_Unchecked(c, address) ==
    [result |-> Ok("unit"), ctx |-> set_contract_address(c, HexPairs(SubSeq(address, 3, 42)))]

\* ctx.set_contract_address(Address::parse_checksummed(&address, None)?)
SelectContract(c, address) ==
    LET parsed == ParseChecksummed(address)
    IN IF parsed.ok
       THEN [result |-> Ok("unit"), ctx |-> set_contract_address(c, parsed.value)]
       ELSE [result |-> Err(ErrorFrom(parsed.err)), ctx |-> c]

\* a step that leaves the record as it was
SetAddress_Skipped(infos, i, address) == infos

\* info.address = Some(address.clone()) on the record found
SetAddress(infos, i, address) == [infos EXCEPT ![i].address = Some(address)]

\* Step::ChangeContractAddress
ChangeContractAddress ==
    /\ Chosen("ChangeContractAddress")
    /\ \E contract_name \in
             select_contract_name({contract_infos[i].name : i \in 1..Len(contract_infos)}),
          address \in input_contract_address :
          IF ~contract_name.ok \/ ~address.ok
          THEN /\ pc' = "failed"
               /\ last' = Iteration("ChangeContractAddress",
                                    IF ~contract_name.ok
                                    THEN <<"select_step", "select_contract_name">>
                                    ELSE <<"select_step", "select_contract_name",
                                           "input_contract_address">>,
                                    None, None, None, None, Plain(PromptErr))
               /\ UNCHANGED <<contract_infos, saved_infos, ctx>>
          ELSE LET i == FirstIndex({k \in 1..Len(contract_infos) :
                                          contract_infos[k].name = contract_name.value})
                   selected == SelectContract(ctx, address.value)
               IN IF i = 0
                  THEN /\ pc' = "loop"
                       /\ last' = Iteration("ChangeContractAddress",
                                            <<"select_step", "select_contract_name",
                                              "input_contract_address">>,
                                            Some(contract_name.value), Some(address.value),
                                            None, None, Plain(Ok("unit")))
                       /\ UNCHANGED <<contract_infos, saved_infos, ctx>>
                  ELSE /\ contract_infos' = SetAddress(contract_infos, i, address.value)
                       /\ saved_infos' = contract_infos'
                       /\ ctx' = selected.ctx
                       /\ pc' = After(selected.result)
                       /\ last' = Iteration("ChangeContractAddress",
                                            <<"select_step", "select_contract_name",
                                              "input_contract_address">>,
                                            Some(contract_name.value), Some(address.value),
                                            None, None, Plain(selected.result))
    /\ UNCHANGED call

\* Step::SelectMethod
SelectMethod ==
    /\ Chosen("SelectMethod")
    /\ LET i == FirstIndex({k \in 1..Len(contract_infos) :
                                  contract_infos[k].address # None})
           name == IF i = 0 THEN None ELSE Some(contract_infos[i].name)
           Fail(result, prompts) ==
               /\ pc' = "failed"
               /\ last' = Iteration("SelectMethod", prompts, name, None, None, None,
                                    Plain(result))
       IN IF i = 0 THEN Fail(Err("NoContractSelected"), <<"select_step">>)
          ELSE IF contract_infos[i].name \notin DOMAIN abis
               THEN Fail(ErrMsg("ContractNotFound", contract_infos[i].name), <<"select_step">>)
          ELSE \E method_type \in select_method_type :
                  IF ~method_type.ok
                  THEN Fail(method_type, <<"select_step", "select_method_type">>)
                  ELSE LET methods == get_methods_by_type(abis[contract_infos[i].name],
                                                          method_type.value)
                       IN \E method_name \in select_method(methods) :
                             IF ~method_name.ok
                             THEN Fail(method_name, <<"select_step", "select_method_type",
                                                      "select_method">>)
                             ELSE \E params \in input_method_params(methods[method_name.value]),
                                     env \in Envs :
                                     IF ~params.ok
                                     THEN Fail(params, <<"select_step", "select_method_type",
                                                         "select_method",
                                                         "input_method_params">>)
                                     ELSE LET function == methods[method_name.value]
                                              exec == execute_method(ctx, function,
                                                                     params.value, env)
                                          IN /\ pc' = After(exec.result)
                                             /\ last' = Iteration(
                                                    "SelectMethod",
                                                    <<"select_step", "select_method_type",
                                                      "select_method", "input_method_params">>,
                                                    name, None,
                                                    Some(function), Some(params.value), exec)
    /\ UNCHANGED <<contract_infos, saved_infos, ctx, call>>

\* a loop that takes Exit for one more step and goes round
Exit_KeepsLooping ==
    /\ Chosen("Exit")
    /\ pc' = "loop"
    /\ last' = Iteration("Exit", <<"select_step">>, None, None, None, None, Plain(Ok("unit")))
    /\ UNCHANGED <<contract_infos, saved_infos, ctx, call>>

\* Step::Exit => break, and main returns Ok(())
Exit ==
    /\ Chosen("Exit")
    /\ pc' = "exited"
    /\ last' = Iteration("Exit", <<"select_step">>, None, None, None, None, Plain(Ok("unit")))
    /\ UNCHANGED <<contract_infos, saved_infos, ctx, call>>

Next ==
    SelectStepFailed \/ ChangeContract \/ ChangeContractAddress \/ SelectMethod \/ Exit

Spec == Init /\ [][Next]_vars

(***************************************************************************)
(* The claims.                                                             *)
(***************************************************************************)
\* the collaborator calls of the returned execute_method that are op
EventsOf(op) ==
    {i \in 1..Len(Unwrap(call.ret).events) : Unwrap(call.ret).events[i].op = op}

\* the returned execute_method made no call and no sign_and_send
NoProviderOperation == EventsOf("call") = {} /\ EventsOf("sign_and_send") = {}

\* the dispatched method is a Write method
IsWrite(function) == function.state_mutability \in {"nonpayable", "payable"}

\* the returned execute_method asked for the confirmation and got this answer
ConfirmationAnswered(answer) ==
    \E i \in EventsOf("confirm_transaction") : Unwrap(call.ret).events[i].arg = answer

\* every sign_and_send comes after a confirmation that returned true
SendFollowsConfirmation ==
    \A j \in EventsOf("sign_and_send") :
       \E i \in EventsOf("confirm_transaction") :
          i < j /\ Unwrap(call.ret).events[i].arg = Ok(TRUE)

\* C1 as stated: for every Write method and every Context, when the
\* confirmation prompt of execute_method does not return true, execute_method
\* makes no call and no sign_and_send and returns the cancelled result, not an
\* error; and every sign_and_send follows a confirmation that returned true.
C1_UnconfirmedIsCancelled ==
    (Returned("execute_method") /\ IsWrite(call.args.function)) =>
        /\ SendFollowsConfirmation
        /\ (\E answer \in {Ok(FALSE), PromptErr} : ConfirmationAnswered(answer)) =>
              /\ NoProviderOperation
              /\ Unwrap(call.ret).result = Ok("Transaction cancelled")

\* C1 amended: when the confirmation prompt returns false, execute_method makes
\* no call and no sign_and_send and returns the cancelled result; when the
\* prompt itself fails, execute_method makes no call and no sign_and_send and
\* returns the prompt's error; and every sign_and_send follows a confirmation
\* that returned true.
C1_NoSendWithoutConfirmation ==
    (Returned("execute_method") /\ IsWrite(call.args.function)) =>
        /\ SendFollowsConfirmation
        /\ ConfirmationAnswered(Ok(FALSE)) =>
              /\ NoProviderOperation
              /\ Unwrap(call.ret).result = Ok("Transaction cancelled")
        /\ ConfirmationAnswered(PromptErr) =>
              /\ NoProviderOperation
              /\ Unwrap(call.ret).result = PromptErr

\* C1 witness: a Write method with a contract address, a wallet and working
\* collaborators, whose confirmation is answered false: cancelled, nothing sent.
C1_Witness ==
    /\ Returned("execute_method")
    /\ call.args.function = Fn("f", "nonpayable", <<TUint>>)
    /\ call.args.params = << <<"1">> >>
    /\ wallet(call.args.ctx) # None
    /\ call.args.env = [confirm |-> Ok(FALSE), encode_input |-> TRUE,
                        transport |-> TRUE, decode_output |-> TRUE]
    /\ Unwrap(call.ret).result = Ok("Transaction cancelled")
    /\ Len(Unwrap(call.ret).events) = 1

\* C2: for every method, Read or Write, whose arguments all encode, an
\* execute_method called with no contract address in the Context fails with
\* NoContractSelected and has made no call, no sign_and_send and no
\* confirmation request.
C2_NoContractSelected ==
    (/\ Returned("execute_method")
     /\ call.args.ctx.contract_address = None
     /\ Unwrap(call.ret).encoded_params # None)
        => /\ Unwrap(call.ret).result = Err("NoContractSelected")
           /\ Unwrap(call.ret).events = <<>>

\* C2 witness: a payable method with a wallet, a user who would confirm and no
\* address selected.
C2_Witness ==
    /\ Returned("execute_method")
    /\ call.args.function = Fn("f", "payable", <<TUint>>)
    /\ call.args.params = << <<"1">> >>
    /\ call.args.ctx = ContextNew(Some("key"))
    /\ call.args.env.confirm = Ok(TRUE)
    /\ Unwrap(call.ret).result = Err("NoContractSelected")
    /\ Unwrap(call.ret).encoded_params = Some(<<ToBeBytes32(1)>>)

\* C5: for every Write method dispatched with a contract address and a
\* confirmation that returned true, a Context without a wallet makes
\* execute_method fail with NoWalletConfigured, and no sign_and_send is made.
C5_NoWalletConfigured ==
    (/\ Returned("execute_method")
     /\ IsWrite(call.args.function)
     /\ call.args.ctx.contract_address # None
     /\ call.args.ctx.wallet = None
     /\ ConfirmationAnswered(Ok(TRUE)))
        => /\ Unwrap(call.ret).result = Err("NoWalletConfigured")
           /\ EventsOf("sign_and_send") = {}

\* C5 witness: a confirmed nonpayable method, an address, working collaborators
\* and no wallet.
C5_Witness ==
    /\ Returned("execute_method")
    /\ call.args.function = Fn("f", "nonpayable", <<>>)
    /\ call.args.ctx.contract_address # None
    /\ call.args.ctx.wallet = None
    /\ call.args.env = [confirm |-> Ok(TRUE), encode_input |-> TRUE,
                        transport |-> TRUE, decode_output |-> TRUE]
    /\ Unwrap(call.ret).result = Err("NoWalletConfigured")

\* the scalar types of the Type Codec
ScalarTypes ==
    { <<"address">>, <<"uint256">>, <<"int256">>, <<"bool">>, <<"string">>, <<"bytes">> }

\* a dynamic or fixed-size array of a scalar type, or a tuple
IsSupportedComposite(ty) ==
    \/ \E s \in ScalarTypes : ty = s \o <<"[", "]">>
    \/ \E s \in ScalarTypes : Len(ty) = Len(s) + 3 /\ SubSeq(ty, 1, Len(s)) = s
                              /\ ty[Len(s) + 1] = "[" /\ ty[Len(s) + 2] \in DecDigits
                              /\ ty[Len(s) + 3] = "]"
    \/ (Len(ty) >= 2 /\ ty[1] = "(" /\ ty[Len(ty)] = ")")

\* C9: for every method and argument values that execute_method encodes and
\* sends, the encoded_params that form the payload hold exactly one entry per declared
\* parameter, in declaration order: as many entries as parameters, the i-th
\* the encoding of the i-th value (for a scalar parameter, its scalar encoding).
C9_OneEntryPerParameter ==
    (/\ Returned("execute_method")
     /\ Unwrap(call.ret).encoded_params # None
     /\ EventsOf("call") \cup EventsOf("sign_and_send") # {}) =>
        LET inputs == call.args.function.inputs
            encoded_params == Unwrap(Unwrap(call.ret).encoded_params)
        IN /\ Len(encoded_params) = Len(inputs)
           /\ \A i \in 1..Len(inputs) :
                 inputs[i].ty \in ScalarTypes =>
                    <<encoded_params[i]>> = ScalarArm(inputs[i].ty, call.args.params[i]).value

\* C10: in execute_method a parameter whose type is an array, fixed-size or
\* dynamic, of a scalar type or a tuple goes to a composite parser and is never
\* rejected as an unsupported type; a parameter of a scalar type goes to the
\* scalar codec.
C10_CompositeRouting ==
    (Returned("execute_method") /\ Len(call.args.function.inputs) = 1) =>
        LET ty == call.args.function.inputs[1].ty
            result == Unwrap(call.ret).result
            bytes == EncodeParam(call.args.function.inputs[1], call.args.params[1])
        IN /\ IsSupportedComposite(ty) =>
                 /\ IsCompositeType(ty)
                 /\ ~(~result.ok /\ result.err = "UnsupportedType")
           /\ ty \in ScalarTypes =>
                 /\ ~IsCompositeType(ty)
                 /\ bytes = ScalarArm(ty, call.args.params[1])

\* a well-formed checksummed address text
IsChecksummed(text) == ParseChecksummed(text).ok

\* the loop has just run a ChangeContractAddress step on the address text a user typed
EnteredAddress == last'.step = "ChangeContractAddress" /\ last'.address # None

Recoverable == {"InvalidAddress", "InvalidArguments", "NoContractSelected"}

\* C4: when the body of a step fails with a recoverable error the loop does
\* not end: main is again at the choice of a step.
C4_LoopSurvivesRecoverableError ==
    (~last.result.ok /\ last.result.err \in Recoverable) => pc = "loop"

\* the number of commas of a text
CommaCount(t) == Cardinality({i \in 1..Len(t) : t[i] = ","})

\* C6: get_methods_by_type returns under Read only view or pure methods, under
\* Write only methods that are neither, under All a map whose names are exactly
\* the names returned under Read and under Write together; every entry is a
\* method of the list filed under its own name; an empty list gives an empty
\* map under each filter.
C6_ClassifyPartitions ==
    Returned("get_methods_by_type") =>
        LET abi == call.args.abi
            method_type == call.args.method_type
            methods == Unwrap(call.ret)
        IN /\ \A n \in DOMAIN methods :
                 /\ methods[n].name = n
                 /\ \E i \in DOMAIN abi : abi[i] = methods[n]
           /\ method_type = "Read" =>
                 \A n \in DOMAIN methods :
                     methods[n].state_mutability \in {"view", "pure"}
           /\ method_type = "Write" =>
                 \A n \in DOMAIN methods :
                     methods[n].state_mutability \notin {"view", "pure"}
           /\ method_type = "All" =>
                 /\ DOMAIN methods = DOMAIN get_methods_by_type(abi, "Read")
                                     \cup DOMAIN get_methods_by_type(abi, "Write")
                 /\ DOMAIN methods = {abi[i].name : i \in DOMAIN abi}
           /\ abi = <<>> => DOMAIN methods = {}

\* C6 witness: a view f and a nonpayable g classified under All give both names,
\* the specification's own example.
C6_Witness ==
    /\ Returned("get_methods_by_type")
    /\ call.args.method_type = "All"
    /\ call.args.abi = << [name |-> "f", state_mutability |-> "view", inputs |-> <<>>],
                          [name |-> "g", state_mutability |-> "nonpayable", inputs |-> <<>>] >>
    /\ DOMAIN Unwrap(call.ret) = {"f", "g"}

\* C7: parse_tuple_input succeeds only if the number of comma-separated parts
\* of the input equals the number of element types; otherwise its result is
\* the InvalidArguments error that reports the number of types as expected
\* and the number of parts as found, whatever the parts hold (no element's own
\* error is returned, so none was encoded).
C7_TupleArity ==
    Returned("parse_tuple_input") =>
        LET n == CommaCount(call.args.input) + 1
            expected == Len(call.args.param_types)
            r == Unwrap(call.ret)
        IN /\ r.ok => n = expected
           /\ n # expected =>
                 r = ErrMsg("InvalidArguments",
                            <<"Tuple input length mismatch", expected, n>>)

\* C7 witness: three parts against two types, the first part not even a number,
\* rejected with the counts 2 and 3.
C7_Witness ==
    /\ Returned("parse_tuple_input")
    /\ call.args.input = <<"(", "z", ",", "1", ",", "1", ")">>
    /\ call.args.param_types = << <<"uint256">>, <<"bool">> >>
    /\ Unwrap(call.ret) = ErrMsg("InvalidArguments", <<"Tuple input length mismatch", 2, 3>>)

\* the first half of C8: the input [] gives the empty sequence
C8_EmptyBrackets ==
    (/\ Returned("parse_array_or_slice_input")
     /\ call.args.param_type \in SupportedElementTypes
     /\ call.args.input = <<"[", "]">>)
        => Unwrap(call.ret) = Ok(<<>>)

\* the second half of C8: N >= 1 valid elements between brackets give exactly
\* N EncodedArguments, the i-th the scalar encoding of the i-th element
C8_OnePerElement ==
    (/\ Returned("parse_array_or_slice_input")
     /\ call.args.param_type \in SupportedElementTypes
     /\ call.args.wrap = "brackets"
     /\ call.args.input # <<"[", "]">>
     /\ \A i \in DOMAIN call.args.parts :
           ScalarArm(call.args.param_type, Trim(call.args.parts[i])).ok)
        => LET r == Unwrap(call.ret)
               parts == call.args.parts
           IN /\ r.ok
              /\ Len(r.value) = Len(parts)
              /\ \A i \in DOMAIN parts :
                    r.value[i] = ScalarArm(call.args.param_type, Trim(parts[i])).value[1]

\* C8: for every supported element type, parse_array_or_slice_input returns
\* the empty sequence on the input [] and, on N >= 1 comma-separated valid
\* elements, exactly N EncodedArguments, the i-th the scalar encoding of the
\* i-th element.
C8_ArrayEmptyAndCount == C8_EmptyBrackets /\ C8_OnePerElement

\* the index of the first parameter whose text does not encode, 0 when all do
FirstFailing(function, params) ==
    FirstIndex({k \in 1..Len(function.inputs) :
                   ~EncodeParam(function.inputs[k], params[k]).ok})

\* the Error variants an argument that does not encode is rejected with
ValidationErrors == {"InvalidAddress", "InvalidArguments", "Hex", "UnsupportedType"}

\* the loop has just dispatched a method with the texts typed for its parameters
Dispatched == last'.step = "SelectMethod" /\ last'.params # None

\* C11: in every dispatch, when an argument does not encode, execute_method
\* returns the validation error of the first such argument and has made no
\* call, no sign_and_send and no confirmation request, and the Context is as
\* it was before the dispatch.
C11_ValidationBeforeOperations ==
    [][ (Dispatched /\ FirstFailing(Unwrap(last'.function), Unwrap(last'.params)) # 0) =>
          LET function == Unwrap(last'.function)
              params == Unwrap(last'.params)
              k == FirstFailing(function, params)
          IN /\ last'.result = EncodeParam(function.inputs[k], params[k])
             /\ ~last'.result.ok
             /\ last'.result.err \in ValidationErrors
             /\ last'.events = <<>>
             /\ ctx' = ctx ]_vars

\* C11 witness: mark(address,bool), a Write method, dispatched with a wallet
\* and an address selected; the address encodes, the boolean text z does not:
\* InvalidArguments, and nobody was asked or called.
C11_Witness ==
    /\ last.step = "SelectMethod"
    /\ last.function = Some(Fn("mark", "nonpayable", << <<"address">>, <<"bool">> >>))
    /\ last.params = Some(<<Addr1, <<"z">> >>)
    /\ ctx.contract_address # None
    /\ ctx.wallet # None
    /\ ~last.result.ok
    /\ last.result.err = "InvalidArguments"
    /\ last.events = <<>>

\* C12: when the prompt yields Exit the loop ends and main returns Ok(()); that
\* iteration writes no registry, changes no Context and calls no collaborator,
\* and nothing happens after it; and Exit can be chosen at every head of the
\* loop, whatever the registry and the Context hold.
C12_ExitIsTerminal ==
    /\ [][ ((pc = "loop" /\ last'.step = "Exit") =>
                (/\ pc' = "exited"
                 /\ last'.result.ok
                 /\ last'.events = <<>>
                 /\ contract_infos' = contract_infos
                 /\ saved_infos' = saved_infos
                 /\ ctx' = ctx))
            /\ (pc = "exited" => UNCHANGED vars) ]_vars
    /\ [](pc = "loop" => ENABLED Exit)

\* C12 witness: main has returned Ok(()) through Exit after a contract was
\* registered and its address selected.
C12_Witness ==
    /\ pc = "exited"
    /\ last.step = "Exit"
    /\ contract_infos # <<>>
    /\ ctx.contract_address # None

\* the names of the records of a registry
NamesOf(infos) == {infos[i].name : i \in 1..Len(infos)}

\* the loop has just run a ChangeContractAddress step
AddressStep == pc = "loop" /\ last'.step = "ChangeContractAddress"

\* C13: ChangeContractAddress acts only on a name of a record of the registry;
\* when it succeeds for the name N and the address A, the (first) record of N
\* holds A, the registry file holds the registry, and the Context's
\* contract_address is A; when no name of the registry was chosen, neither the
\* registry nor the Context changes.
C13_AddressStepEffects ==
    [][ AddressStep =>
          /\ last'.name # None => Unwrap(last'.name) \in NamesOf(contract_infos)
          /\ (last'.name # None /\ last'.result.ok) =>
                LET N == Unwrap(last'.name)
                    A == Unwrap(last'.address)
                    i == FirstIndex({k \in 1..Len(contract_infos) :
                                        contract_infos[k].name = N})
                IN /\ Len(contract_infos') = Len(contract_infos)
                   /\ contract_infos'[i] = [name |-> N, address |-> Some(A)]
                   /\ saved_infos' = contract_infos'
                   /\ ctx'.contract_address = Some(ParseChecksummed(A).value)
          /\ (last'.name = None \/ Unwrap(last'.name) \notin NamesOf(contract_infos)) =>
                /\ contract_infos' = contract_infos
                /\ saved_infos' = saved_infos
                /\ ctx' = ctx ]_vars

\* C13 witness: Addr2 was entered for A.abi, the step succeeded, and the
\* record, the file and the Context all hold Addr2.
C13_Witness ==
    /\ last.step = "ChangeContractAddress"
    /\ last.name = Some("A.abi")
    /\ last.address = Some(Addr2)
    /\ last.result.ok
    /\ contract_infos # <<>>
    /\ contract_infos[1] = [name |-> "A.abi", address |-> Some(Addr2)]
    /\ saved_infos = contract_infos
    /\ ctx.contract_address = Some(ParseChecksummed(Addr2).value)

\* the loop has just run a SelectMethod step
MethodStep == pc = "loop" /\ last'.step = "SelectMethod"

\* the records of the registry that hold an address
WithAddress(infos) == {k \in 1..Len(infos) : infos[k].address # None}

\* C14: SelectMethod goes past its first check only when some record of the
\* registry holds an address, and then works on the first such record in
\* registry order; when no record holds an address the step fails with
\* NoContractSelected and has asked for no method type, method or parameter
\* and dispatched nothing.
C14_FirstRecordWithAddress ==
    [][ MethodStep =>
          /\ WithAddress(contract_infos) = {} =>
                /\ last'.result = Err("NoContractSelected")
                /\ last'.prompts = <<"select_step">>
                /\ last'.function = None
                /\ last'.events = <<>>
                /\ pc' = "failed"
          /\ WithAddress(contract_infos) # {} =>
                \E i \in WithAddress(contract_infos) :
                   /\ \A j \in WithAddress(contract_infos) : i <= j
                   /\ last'.name = Some(contract_infos[i].name)
                   /\ last'.function # None =>
                         \E k \in DOMAIN abis[contract_infos[i].name] :
                            abis[contract_infos[i].name][k] = Unwrap(last'.function) ]_vars

\* C14 witness: B.abi was registered before A.abi and both hold an address;
\* the method dispatched is one of B.abi, the first record.
C14_Witness ==
    /\ last.step = "SelectMethod"
    /\ Len(contract_infos) = 2
    /\ contract_infos[1].name = "B.abi"
    /\ contract_infos[2].name = "A.abi"
    /\ WithAddress(contract_infos) = {1, 2}
    /\ last.name = Some("B.abi")
    /\ last.function = Some(Fn("total", "pure", <<TUintArray>>))
    /\ last.result.ok

\* C14 second witness: no record holds an address and SelectMethod has failed
\* with NoContractSelected after the step prompt alone.
C14_WitnessNone ==
    /\ last.step = "SelectMethod"
    /\ contract_infos # <<>>
    /\ WithAddress(contract_infos) = {}
    /\ last.result = Err("NoContractSelected")
    /\ last.prompts = <<"select_step">>

\* a non-empty text of decimal digits
IsDecimal(text) == text # <<>> /\ \A i \in 1..Len(text) : text[i] \in DecDigits

\* a base-10 integer of the type: digits, for int256 also a minus sign and digits
IsBase10Integer(ty, text) ==
    \/ IsDecimal(text)
    \/ ty = <<"int256">> /\ text # <<>> /\ Head(text) = "-" /\ IsDecimal(Tail(text))

RECURSIVE BeValue(_)
\* the integer a sequence of bytes stands for, most significant byte first
BeValue(bytes) ==
    IF bytes = <<>> THEN 0
    ELSE 256 * BeValue(SubSeq(bytes, 1, Len(bytes) - 1)) + bytes[Len(bytes)]

RECURSIVE DecimalValue(_)
\* the integer a text of decimal digits stands for
DecimalValue(text) ==
    IF text = <<>> THEN 0
    ELSE 10 * DecimalValue(SubSeq(text, 1, Len(text) - 1)) + DigitVal(text[Len(text)])

\* C15: for uint256 and int256 the encoding of a text succeeds exactly when the
\* text is a base-10 integer (that fits in 256 bits, as every text of the
\* model does), the result is then 32 bytes whose big-endian value is the
\* integer, and every other text fails with InvalidArguments.
C15_IntegerEncoding ==
    Returned("encode_integer") =>
        LET ty == call.args.param_type
            text == call.args.value
            element == Unwrap(call.ret).element
            scalar == Unwrap(call.ret).scalar
        IN IF IsBase10Integer(ty, text)
           THEN /\ element.ok /\ scalar.ok
                /\ scalar.value = <<element.value>>
                /\ Len(element.value) = 32
                /\ IsDecimal(text) => BeValue(element.value) = DecimalValue(text)
           ELSE /\ ~element.ok /\ element.err = "InvalidArguments"
                /\ ~scalar.ok /\ scalar.err = "InvalidArguments"

\* the part of C15 that the code keeps: a text of decimal digits encodes to 32
\* bytes whose big-endian value is the integer, in both places alike
C15_DecimalRoundTrip ==
    (Returned("encode_integer") /\ IsDecimal(call.args.value)) =>
        LET element == Unwrap(call.ret).element
            scalar == Unwrap(call.ret).scalar
        IN /\ element.ok /\ scalar.ok
           /\ scalar.value = <<element.value>>
           /\ Len(element.value) = 32
           /\ BeValue(element.value) = DecimalValue(call.args.value)

\* the error kind the Type Codec gives an element of this type that does not encode
ElementErrorKind(ty) == IF ty = <<"address">> THEN "InvalidAddress" ELSE "InvalidArguments"

\* the generated parts as the parsers see them: trimmed
TrimmedParts == [i \in DOMAIN call.args.parts |-> Trim(call.args.parts[i])]

\* the outcome of the k-th element of the returned parser call, on its own
ElementOutcome(k) ==
    IF call.op = "parse_array_or_slice_input"
    THEN ArrayElement(TrimmedParts[k], call.args.param_type)
    ELSE TupleElement(TrimmedParts[k], call.args.param_types[k])

\* the type of the k-th element of the returned parser call
ElementType(k) ==
    IF call.op = "parse_array_or_slice_input"
    THEN call.args.param_type
    ELSE call.args.param_types[k]

\* the elements of the returned parser call that do not encode
FailingElements == {k \in DOMAIN TrimmedParts : ~ElementOutcome(k).ok}

\* a composite parser has returned from its element loop
LoopReturned ==
    \/ Returned("parse_array_or_slice_input")
    \/ /\ Returned("parse_tuple_input")
       /\ Len(call.args.parts) = Len(call.args.param_types)

\* C16: in parse_array_or_slice_input and in parse_tuple_input (past its arity
\* test) the leftmost element that does not encode decides the result: the
\* result is that element's own error, InvalidAddress for an address element
\* and InvalidArguments for any other, not the error of a later element and
\* not a sequence of the elements encoded so far; with no such element the
\* result is the whole sequence.
C16_FirstFailureAborts ==
    LoopReturned =>
        LET r == Unwrap(call.ret)
        IN IF FailingElements = {}
           THEN r.ok /\ Len(r.value) = Len(TrimmedParts)
           ELSE \E k \in FailingElements :
                   /\ \A j \in FailingElements : k <= j
                   /\ r = ElementOutcome(k)
                   /\ ~r.ok
                   /\ r.err = ElementErrorKind(ElementType(k))
                   /\ r.msg[Len(r.msg)] \in {TrimmedParts[k], ElementType(k)}
                   /\ "value" \notin DOMAIN r

\* C16 witness: [1,z,true] as uint256[]: the first element encodes, the second
\* is rejected as an invalid number, the third (invalid too) is not reported.
C16_Witness ==
    /\ Returned("parse_array_or_slice_input")
    /\ call.args.param_type = <<"uint256">>
    /\ call.args.input = <<"[", "1", ",", "z", ",", "t", "r", "u", "e", "]">>
    /\ Unwrap(call.ret) = ErrMsg("InvalidArguments", <<"Invalid number", <<"z">> >>)

\* C17: for every list of chain records and every chain id, get_by_id returns
\* the first record in list order whose chain_id is the requested id, and
\* returns ChainNotFound with the requested id exactly when no record of the
\* list has that id.
C17_GetById ==
    Returned("get_by_id") =>
        LET chain_infos == call.args.chain_infos
            chain_id == call.args.chain_id
            r == Unwrap(call.ret)
            hits == {k \in 1..Len(chain_infos) : chain_infos[k].chain_id = chain_id}
        IN /\ hits # {} =>
                 \E k \in hits : (\A j \in hits : k <= j) /\ r = Ok(chain_infos[k])
           /\ hits = {} => r = ErrMsg("ChainNotFound", chain_id)
           /\ ~r.ok => hits = {}

\* C17 witness: the id 2 is asked of a list whose second and third records both
\* have it: the second is returned.
C17_Witness ==
    /\ Returned("get_by_id")
    /\ call.args.chain_id = 2
    /\ call.args.chain_infos =
          << [name |-> "Test Chain 1", chain_id |-> 1, network_id |-> 2],
             [name |-> "Test Chain 2", chain_id |-> 2, network_id |-> 2],
             [name |-> "Test Chain 1", chain_id |-> 2, network_id |-> 1] >>
    /\ Unwrap(call.ret) = Ok([name |-> "Test Chain 2", chain_id |-> 2, network_id |-> 2])

\* what C18 says of every dispatch but the number of calls of a Read method:
\* at most one provider or wallet operation; a Read method makes no
\* sign_and_send and asks for no confirmation; a Write method makes no call and
\* at most one sign_and_send; an operation that fails in the transport is not
\* made again and its error is the result.
AtMostOneOperation ==
    LET calls == EventsOf("call")
        sends == EventsOf("sign_and_send")
        function == call.args.function
    IN /\ Cardinality(calls) + Cardinality(sends) <= 1
       /\ IsReadOnly(function) => (sends = {} /\ EventsOf("confirm_transaction") = {})
       /\ IsWrite(function) => (calls = {} /\ Cardinality(EventsOf("confirm_transaction")) <= 1)
       /\ (~call.args.env.transport /\ calls \cup sends # {}) =>
             Unwrap(call.ret).result = Err("Provider")

\* the dispatch gets as far as the provider: the arguments encode, a contract
\* address is selected and encode_input accepts the encoded arguments
ReachesProvider ==
    /\ Unwrap(call.ret).encoded_params # None
    /\ call.args.ctx.contract_address # None
    /\ call.args.env.encode_input

\* C18 as stated: every dispatch makes at most one provider or wallet operation
\* and never retries; a Read method makes exactly one call, no sign_and_send
\* and no confirmation request; a Write method at most one sign_and_send and
\* no call; a transport error is returned without a second operation.
C18_ReadCallsExactlyOnce ==
    Returned("execute_method") =>
        /\ AtMostOneOperation
        /\ IsReadOnly(call.args.function) => Cardinality(EventsOf("call")) = 1

\* C18 amended: as stated, but a Read method makes exactly one call only when
\* its dispatch reaches the provider (its arguments encode, a contract address
\* is selected, encode_input succeeds), and no call at all otherwise.
C18_AtMostOneOperation ==
    Returned("execute_method") =>
        /\ AtMostOneOperation
        /\ IsReadOnly(call.args.function) =>
              Cardinality(EventsOf("call")) = (IF ReachesProvider THEN 1 ELSE 0)

\* C18 witness: a view method whose call fails in the transport: one call was
\* made and its Provider error is the result.
C18_Witness ==
    /\ Returned("execute_method")
    /\ call.args.function = Fn("f", "view", <<TUint>>)
    /\ call.args.params = << <<"1">> >>
    /\ ~call.args.env.transport
    /\ Unwrap(call.ret).result = Err("Provider")
    /\ Cardinality(EventsOf("call")) = 1

\* the loop has just run a ChangeContract step in which a name was chosen
ContractStep == pc = "loop" /\ last'.step = "ChangeContract" /\ last'.name # None

Operations ==
    {k \in 1..Len(last.events) : last.events[k].op \in {"call", "sign_and_send"}}

\* the 20 bytes of the address text registered for the record the last
\* SelectMethod worked on, the first record with an address
RegisteredAddress ==
    LET i == CHOOSE k \in WithAddress(contract_infos) :
                \A j \in WithAddress(contract_infos) : k <= j
    IN HexPairs(SubSeq(Unwrap(contract_infos[i].address), 3, 42))

\* C20: whenever SelectMethod has dispatched a method to the provider or the
\* wallet, the address the operation went to is the address registered for the
\* contract whose ABI the method was taken from, the first record with an
\* address.
C20_MethodGoesToItsContract ==
    (last.step = "SelectMethod" /\ Operations # {}) =>
        \A k \in Operations : last.events[k].arg = RegisteredAddress

\* every address the registry file holds is a well-formed checksummed address
SavedAddressesChecksummed ==
    \A k \in WithAddress(saved_infos) : IsChecksummed(Unwrap(saved_infos[k].address))

\* the last step was a ChangeContractAddress that failed on the address typed
AddressRejected ==
    /\ last.step = "ChangeContractAddress"
    /\ last.address # None
    /\ ~last.result.ok

\* C21: in every reachable state every address stored in the registry file is a
\* well-formed checksummed address, and after a ChangeContractAddress step that
\* failed on the address typed, no record of the registry file holds that
\* address.
C21_RegistryHoldsValidAddresses ==
    /\ SavedAddressesChecksummed
    /\ AddressRejected =>
          \A k \in 1..Len(saved_infos) : saved_infos[k].address # last.address

\* C22: in every reachable state, the state right after startup included, if a
\* record of the registry holds an address then the Context's contract_address
\* is set; and a SelectMethod step that found its record with an address has
\* not failed with NoContractSelected.
C22_AddressInRegistryIsSelected ==
    /\ WithAddress(contract_infos) # {} => ctx.contract_address # None
    /\ (last.step = "SelectMethod" /\ last.name # None) =>
          last.result # Err("NoContractSelected")

\* no two records of the registry carry the same contract name
OneRecordPerName(infos) ==
    \A i, j \in 1..Len(infos) : infos[i].name = infos[j].name => i = j

\* C23: a workflow step taken from a registry without duplicate names leaves a
\* registry without duplicate names, so the registry holds at most one record
\* per contract name and ChangeContractAddress updates the only record of the
\* name chosen.
C23_OneRecordPerName ==
    [][OneRecordPerName(contract_infos) => OneRecordPerName(contract_infos')]_vars

=============================================================================
